---- MODULE Spec2Model ----
(***************************************************************************)
(* A model of ninetysix: the well-identifier parser (parsers.py) and the   *)
(* column bookkeeping of Plate (plate.py).                                  *)
(*                                                                          *)
(* A Python str is modelled as a sequence of one-character strings, so     *)
(* 'A01' is <<"A","0","1">>; slicing, find, split, int() and str() are     *)
(* computed on that sequence as Python computes them.  A Python dict is an *)
(* insertion-ordered sequence of <<key, value>> pairs.  A raised exception *)
(* is the name of its class in an err field ("" when none is raised).      *)
(***************************************************************************)
EXTENDS Integers, Sequences, FiniteSets, TLC

None == "None"

Min(a, b) == IF a < b THEN a ELSE b
Max(a, b) == IF a > b THEN a ELSE b

(***************************************************************************)
(* Python str primitives                                                   *)
(***************************************************************************)
Digits == <<"0", "1", "2", "3", "4", "5", "6", "7", "8", "9">>

IsDigit(c) == \E i \in 1..Len(Digits) : Digits[i] = c

DigitVal(c) == (CHOOSE i \in 1..Len(Digits) : Digits[i] = c) - 1

\* s[start:stop] with Python's clamping of negative and oversized indices
PySlice(s, start, stop) ==
    LET n == Len(s)
        a == IF start < 0 THEN Max(start + n, 0) ELSE Min(start, n)
        b == IF stop < 0 THEN Max(stop + n, 0) ELSE Min(stop, n)
    IN  SubSeq(s, a + 1, b)

\* s[start:]
PyTail(s, start) == PySlice(s, start, Len(s))

\* str.find / list search: 0-based index of the first match, -1 when absent
Find(s, c) ==
    IF \E i \in 1..Len(s) : s[i] = c
    THEN (CHOOSE i \in 1..Len(s) : s[i] = c /\ \A j \in 1..(i - 1) : s[j] # c) - 1
    ELSE -1

\* str.rfind: 0-based index of the last match, -1 when absent
RFind(s, c) ==
    IF \E i \in 1..Len(s) : s[i] = c
    THEN (CHOOSE i \in 1..Len(s) : s[i] = c /\ \A j \in (i + 1)..Len(s) : s[j] # c) - 1
    ELSE -1

Contains(s, c) == Find(s, c) # -1

\* str.split(sep) for a one-character separator
RECURSIVE Split(_, _)
SplitAt(s, sep, i) ==
    IF i = -1 THEN <<s>>
    ELSE <<SubSeq(s, 1, i)>> \o Split(SubSeq(s, i + 2, Len(s)), sep)

Split(s, sep) == SplitAt(s, sep, Find(s, sep))

\* str.strip() restricted to the blank character
RECURSIVE LStrip(_)
LStrip(s) == IF s # <<>> /\ Head(s) = " " THEN LStrip(Tail(s)) ELSE s

RECURSIVE RStrip(_)
RStrip(s) ==
    IF s # <<>> /\ s[Len(s)] = " " THEN RStrip(SubSeq(s, 1, Len(s) - 1)) ELSE s

Strip(s) == RStrip(LStrip(s))

\* int(s): surrounding blanks are ignored, one optional sign, then digits
Signed(t) == t # <<>> /\ (Head(t) = "-" \/ Head(t) = "+")
Unsign(t) == IF Signed(t) THEN Tail(t) ELSE t
AllDigits(b) == b # <<>> /\ \A i \in 1..Len(b) : IsDigit(b[i])

\* int(s) does not raise ValueError
PyIntOk(s) == AllDigits(Unsign(Strip(s)))

RECURSIVE DigitsVal(_)
DigitsVal(b) ==
    IF b = <<>> THEN 0
    ELSE 10 * DigitsVal(SubSeq(b, 1, Len(b) - 1)) + DigitVal(b[Len(b)])

SignedVal(t) ==
    IF t # <<>> /\ Head(t) = "-" THEN 0 - DigitsVal(Tail(t)) ELSE DigitsVal(Unsign(t))

PyInt(s) == SignedVal(Strip(s))

\* str(n)
RECURSIVE NatStr(_)
NatStr(n) ==
    IF n < 10 THEN <<Digits[n + 1]>>
    ELSE NatStr(n \div 10) \o <<Digits[(n % 10) + 1]>>

PyStr(n) == IF n < 0 THEN <<"-">> \o NatStr(0 - n) ELSE NatStr(n)

\* str.lower() on the letters the model writes
UpperLetters == <<"A", "B", "C", "D", "E", "F", "G", "H", "I", "J", "K", "L", "M",
                  "N", "O", "P", "Q", "R", "S", "T", "U", "V", "W", "X", "Y", "Z">>
LowerLetters == <<"a", "b", "c", "d", "e", "f", "g", "h", "i", "j", "k", "l", "m",
                  "n", "o", "p", "q", "r", "s", "t", "u", "v", "w", "x", "y", "z">>

LowerChar(c) ==
    IF \E i \in 1..Len(UpperLetters) : UpperLetters[i] = c
    THEN LowerLetters[CHOOSE i \in 1..Len(UpperLetters) : UpperLetters[i] = c]
    ELSE c

Lower(s) == [i \in 1..Len(s) |-> LowerChar(s[i])]

(***************************************************************************)
(* Python dict primitives (insertion ordered)                              *)
(***************************************************************************)
DictKeys(d) == [i \in 1..Len(d) |-> d[i][1]]

DictHas(d, k) == \E i \in 1..Len(d) : d[i][1] = k

\* d.get(k): None when the key is absent
DictGet(d, k) ==
    IF DictHas(d, k) THEN d[CHOOSE i \in 1..Len(d) : d[i][1] = k][2] ELSE None

\* d[k] = v: an existing key keeps its position, a new key goes last
DictSet(d, k, v) ==
    IF DictHas(d, k)
    THEN [i \in 1..Len(d) |-> IF d[i][1] = k THEN <<k, v>> ELSE d[i]]
    ELSE Append(d, <<k, v>>)

\* the dict left by d.pop(k)
DictDel(d, k) == SelectSeq(d, LAMBDA e : e[1] # k)

\* list.index: 0-based position of x in the list, -1 standing for ValueError
ListIndex(l, x) == Find(l, x)

(***************************************************************************)
(* parsers.py                                                              *)
(***************************************************************************)
\* The padded argument of pad and well_regex: True, False or None
PTrue == "True"
PFalse == "False"
Truthy(p) == p = PTrue

NoErr == ""
ValueError == "ValueError"
IndexError == "IndexError"

\* _infer_padding(well): [err, padded]
InferCol(str_col) ==
    IF ~PyIntOk(str_col) THEN [err |-> ValueError, padded |-> FALSE]
    ELSE [err |-> NoErr, padded |-> Len(str_col) # Len(PyStr(PyInt(str_col)))]

_infer_padding(well) ==
    IF well = <<>> THEN [err |-> IndexError, padded |-> FALSE]
    ELSE InferCol(Tail(well))

\* '0' + col for a one-digit col when padded, col as it is otherwise
PadCol(row, col, padded) ==
    [err |-> NoErr,
     well |-> <<row>> \o (IF padded /\ Len(col) = 1 THEN <<"0">> \o col ELSE col)]

\* pad that keeps the column as written, without col = str(int(col))
padAsWritten(well, padded) ==
    IF well = <<>> THEN [err |-> IndexError, well |-> well]
    ELSE IF ~PyIntOk(Tail(well)) THEN [err |-> ValueError, well |-> well]
    ELSE PadCol(Head(well), Tail(well), padded)

\* pad(well, padded): [err, well]
pad(well, padded) ==
    IF well = <<>> THEN [err |-> IndexError, well |-> well]
    ELSE IF ~PyIntOk(Tail(well)) THEN [err |-> ValueError, well |-> well]
    ELSE PadCol(Head(well), PyStr(PyInt(Tail(well))), padded)

\* rows = list('ABCDEFGHJLMNOP')
RowAlphabet == <<"A", "B", "C", "D", "E", "F", "G", "H", "J", "L", "M", "N", "O", "P">>
rows == [i \in 1..Len(RowAlphabet) |-> <<RowAlphabet[i]>>]

\* cols = [str(i) for i in range(1, 25)]
LastColumn == 24
\* cols in the lexical order of the strings: '1', '10', ..., '19', '2', ...
cols0Lexical ==
    [i \in 1..LastColumn |->
        PyStr(<<1, 10, 11, 12, 13, 14, 15, 16, 17, 18, 19, 2,
                20, 21, 22, 23, 24, 3, 4, 5, 6, 7, 8, 9>>[i])]

cols0 == [i \in 1..LastColumn |-> PyStr(i)]

\* RowRange with a slice that stops before the end letter
RowRangeExclusive(i0, i1) ==
    IF i0 = -1 \/ i1 = -1 THEN [err |-> ValueError, rows |-> <<>>]
    ELSE [err |-> NoErr, rows |-> PySlice(rows, i0, i1)]

\* rows[rows.index(start):rows.index(end)+1], the indices given: [err, rows]
RowRange(i0, i1) ==
    IF i0 = -1 \/ i1 = -1 THEN [err |-> ValueError, rows |-> <<>>]
    ELSE [err |-> NoErr, rows |-> PySlice(rows, i0, i1 + 1)]

\* RowGroupOf with a range that lists nothing when an endpoint is not a row
RowGroupOfFound(hyphen_split) ==
    IF Len(hyphen_split) > 1
    THEN [err |-> NoErr,
          rows |-> PySlice(rows, Max(0, ListIndex(rows, hyphen_split[1])),
                           ListIndex(rows, hyphen_split[2]) + 1)]
    ELSE [err |-> NoErr, rows |-> hyphen_split]

\* One comma-separated group of the row bracket, split on '-': [err, rows]
RowGroupOf(hyphen_split) ==
    IF Len(hyphen_split) > 1
    THEN RowRange(ListIndex(rows, hyphen_split[1]), ListIndex(rows, hyphen_split[2]))
    ELSE [err |-> NoErr, rows |-> hyphen_split]

RowGroup(row_set) == RowGroupOf(Split(row_set, "-"))

\* The loop over the groups of the row bracket: [err, rows]
RECURSIVE RowGroups(_, _, _)
RowGroupsNext(comma_split, i, matching_rows, g) ==
    IF g.err # NoErr THEN [err |-> g.err, rows |-> <<>>]
    ELSE RowGroups(comma_split, i + 1, matching_rows \o g.rows)

RowGroups(comma_split, i, matching_rows) ==
    IF i > Len(comma_split) THEN [err |-> NoErr, rows |-> matching_rows]
    ELSE RowGroupsNext(comma_split, i, matching_rows, RowGroup(comma_split[i]))

\* matching_rows of one assignment: [err, rows]
MatchingRows(assignment) ==
    IF assignment[1] = "["
    THEN RowGroups(Split(PySlice(assignment, 1, Find(assignment, "]")), ","), 1, <<>>)
    ELSE [err |-> NoErr, rows |-> <<(<<assignment[1]>>)>>]

\* cols[start:end], the indices given: [err, cols, range]
ColSlice(cols, start, end) ==
    IF start = -1 \/ end = -1 THEN [err |-> ValueError, cols |-> cols, range |-> <<>>]
    ELSE [err |-> NoErr, cols |-> cols, range |-> PySlice(cols, start, end + 1)]

\* cols = [pad('_'+col)[1:] for col in cols]
PadCols(cols) == [j \in 1..Len(cols) |-> Tail(pad(<<"_">> \o cols[j], TRUE).well)]

\* ColRange that takes the endpoints by their integer value, in any form
ColRangeByValue(hyphen_split, cols, padding) ==
    ColSlice(cols, PyInt(hyphen_split[1]) - 1, PyInt(hyphen_split[2]) - 1)

\* A hyphenated column group, the set of inferred paddings of its one-digit
\* endpoints given: [err, cols, range]
ColRange(hyphen_split, cols, padding) ==
    IF Cardinality(padding) > 1
    THEN [err |-> ValueError, cols |-> cols, range |-> <<>>]
    ELSE IF \A b \in padding : b
         THEN ColSlice(PadCols(cols), ListIndex(PadCols(cols), hyphen_split[1]),
                       ListIndex(PadCols(cols), hyphen_split[2]))
         ELSE ColSlice(cols, ListIndex(cols, hyphen_split[1]),
                       ListIndex(cols, hyphen_split[2]))

\* One comma-separated group of the column bracket, split on '-', given the
\* cols list as the earlier groups and keys left it: [err, cols, range]
ColGroupOf(hyphen_split, cols) ==
    IF Len(hyphen_split) > 1
    THEN IF \E j \in 1..Len(hyphen_split) : ~PyIntOk(hyphen_split[j])
         THEN [err |-> ValueError, cols |-> cols, range |-> <<>>]
         ELSE ColRange(hyphen_split, cols,
                       {_infer_padding(<<"_">> \o hyphen_split[j]).padded :
                          j \in {k \in 1..Len(hyphen_split) : PyInt(hyphen_split[k]) < 10}})
    ELSE [err |-> NoErr, cols |-> cols, range |-> hyphen_split]

ColGroup(col_set, cols) == ColGroupOf(Split(col_set, "-"), cols)

\* The loop over the groups of the column bracket: [err, cols, matching]
RECURSIVE ColGroups(_, _, _, _)
ColGroupsNext(comma_split, i, matching_cols, g) ==
    IF g.err # NoErr THEN [err |-> g.err, cols |-> g.cols, matching |-> <<>>]
    ELSE ColGroups(comma_split, i + 1, g.cols, matching_cols \o g.range)

ColGroups(comma_split, i, cols, matching_cols) ==
    IF i > Len(comma_split) THEN [err |-> NoErr, cols |-> cols, matching |-> matching_cols]
    ELSE ColGroupsNext(comma_split, i, matching_cols, ColGroup(comma_split[i], cols))

\* matching_cols of one assignment: [err, cols, matching]
MatchingCols(assignment, cols) ==
    IF assignment[Len(assignment)] = "]"
    THEN ColGroups(Split(PySlice(assignment, RFind(assignment, "[") + 1, -1), ","),
                   1, cols, <<>>)
    ELSE [err |-> NoErr, cols |-> cols,
          matching |-> <<PyTail(assignment,
                                (IF assignment[1] = "[" THEN Find(assignment, "]") ELSE 0) + 1)>>]

\* [''.join(well) for well in product(matching_rows, matching_cols)]
Product(matching_rows, matching_cols) ==
    [k \in 1..(Len(matching_rows) * Len(matching_cols)) |->
        matching_rows[((k - 1) \div Len(matching_cols)) + 1]
            \o matching_cols[((k - 1) % Len(matching_cols)) + 1]]

\* The wells of one assignment: [err, cols, wells]
WellsOfCols(matching_rows, c) ==
    IF c.err # NoErr THEN [err |-> c.err, cols |-> c.cols, wells |-> <<>>]
    ELSE [err |-> NoErr, cols |-> c.cols, wells |-> Product(matching_rows, c.matching)]

WellsOfRows(assignment, cols, r) ==
    IF r.err # NoErr THEN [err |-> r.err, cols |-> cols, wells |-> <<>>]
    ELSE WellsOfCols(r.rows, MatchingCols(assignment, cols))

Wells(assignment, cols) ==
    IF Contains(assignment, "[")
    THEN WellsOfRows(assignment, cols, MatchingRows(assignment))
    ELSE [err |-> NoErr, cols |-> cols, wells |-> <<assignment>>]

\* for well in wells: parsed_dict[well] = value
\* (the test on Len makes TLC evaluate the dict before it recurses)
RECURSIVE SetAll(_, _, _, _)
SetAllNext(d, wells, i, value) ==
    IF Len(d) = 0 THEN d ELSE SetAll(d, wells, i + 1, value)

SetAll(d, wells, i, value) ==
    IF i > Len(wells) THEN d
    ELSE SetAllNext(DictSet(d, wells[i], value), wells, i, value)

\* The loop over working_dict.keys(): [err, dict].  ExpandKey gets the dict
\* left by parsed_dict.pop(assignment), the popped value, and the wells.
RECURSIVE ExpandLoop(_, _, _, _)
ExpandKey(keys, i, popped, value, w) ==
    IF w.err # NoErr THEN [err |-> w.err, dict |-> <<>>]
    ELSE ExpandLoop(keys, i + 1, SetAll(popped, w.wells, 1, value), w.cols)

ExpandLoop(keys, i, parsed_dict, cols) ==
    IF i > Len(keys) THEN [err |-> NoErr, dict |-> parsed_dict]
    ELSE ExpandKey(keys, i, DictDel(parsed_dict, keys[i]), DictGet(parsed_dict, keys[i]),
                   Wells(keys[i], cols))

\* InferOf that infers padding only when every well is zero-padded
InferOfAll(rs) ==
    IF \E i \in 1..Len(rs) : rs[i].err # NoErr
    THEN [err |-> rs[CHOOSE i \in 1..Len(rs) :
                       rs[i].err # NoErr /\ \A j \in 1..(i - 1) : rs[j].err = NoErr].err,
          padded |-> FALSE]
    ELSE [err |-> NoErr, padded |-> \A i \in 1..Len(rs) : rs[i].padded]

\* [True for well in wells if _infer_padding(well)] is not empty, the results
\* of _infer_padding given in order: [err, padded]
InferOf(rs) ==
    IF \E i \in 1..Len(rs) : rs[i].err # NoErr
    THEN [err |-> rs[CHOOSE i \in 1..Len(rs) :
                       rs[i].err # NoErr /\ \A j \in 1..(i - 1) : rs[j].err = NoErr].err,
          padded |-> FALSE]
    ELSE [err |-> NoErr, padded |-> \E i \in 1..Len(rs) : rs[i].padded]

\* padded = [True for well in parsed_dict if _infer_padding(well)]
InferAny(d) == InferOf([i \in 1..Len(d) |-> _infer_padding(d[i][1])])

\* The padding loop over parsed_dict: [err, dict]; a ValueError of pad keeps
\* the key as it is, any other exception propagates.  PadKey gets the dict
\* left by padded_dict.pop(well), the popped value, and pad(well).
RECURSIVE PadLoop(_, _, _)
PadLoopNext(parsed_dict, i, padded_dict) ==
    IF Len(padded_dict) = 0 THEN [err |-> NoErr, dict |-> padded_dict]
    ELSE PadLoop(parsed_dict, i + 1, padded_dict)

PadKey(parsed_dict, i, popped, value, p) ==
    IF p.err \notin {NoErr, ValueError} THEN [err |-> p.err, dict |-> <<>>]
    ELSE PadLoopNext(parsed_dict, i, DictSet(popped, p.well, value))

PadLoop(parsed_dict, i, padded_dict) ==
    IF i > Len(parsed_dict) THEN [err |-> NoErr, dict |-> padded_dict]
    ELSE PadKey(parsed_dict, i, DictDel(padded_dict, parsed_dict[i][1]),
                DictGet(padded_dict, parsed_dict[i][1]), pad(parsed_dict[i][1], TRUE))

\* well_regex(input_dict, padded): [err, dict]
PadIf(e, inf) ==
    IF inf.err # NoErr THEN [err |-> inf.err, dict |-> <<>>]
    ELSE IF inf.padded THEN PadLoop(e.dict, 1, e.dict)
    ELSE e

Padding(e, padded) ==
    IF e.err # NoErr THEN e
    ELSE PadIf(e, IF padded = None THEN InferAny(e.dict)
                  ELSE [err |-> NoErr, padded |-> Truthy(padded)])

well_regex(input_dict, padded) ==
    Padding(ExpandLoop(DictKeys(input_dict), 1, input_dict, cols0), padded)

(***************************************************************************)
(* plate.py: the zero_padding setter, as a function of the well column     *)
(***************************************************************************)
\* The setter that records the policy and leaves the wells as written
PadWellsKept(wells, zp) == [err |-> NoErr, zero_padding |-> zp, wells |-> wells]

\* Plate.zero_padding = padding on a table whose well column is wells:
\* [err, zero_padding, wells]
PadWells(wells, zp) ==
    [err |-> NoErr, zero_padding |-> zp,
     wells |-> [i \in 1..Len(wells) |-> pad(wells[i], Truthy(zp)).well]]

SetterOf(wells, padding, inf) ==
    IF padding # None THEN PadWells(wells, padding)
    ELSE IF inf.err # NoErr
         THEN [err |-> inf.err, zero_padding |-> PFalse, wells |-> wells]
         ELSE PadWells(wells, IF inf.padded THEN PTrue ELSE PFalse)

\* The setter inferring padding only when every well is zero-padded
ZeroPaddingSetterAll(wells, padding) ==
    SetterOf(wells, padding, InferOfAll([i \in 1..Len(wells) |-> _infer_padding(wells[i])]))

ZeroPaddingSetter(wells, padding) ==
    SetterOf(wells, padding, InferOf([i \in 1..Len(wells) |-> _infer_padding(wells[i])]))

(***************************************************************************)
(* Python list primitives and the heap of list objects                     *)
(*                                                                         *)
(* Plate keeps locations, annotations and values as Python lists, and the  *)
(* code both rebinds them and mutates them in place, so a list is an       *)
(* address into the heap h (a sequence of lists) and two plates can hold   *)
(* the same list.  A call is computed on a record m = [h, p, err, a]: the  *)
(* heap, the plate being worked on, the exception raised so far and the    *)
(* address of the list a step has just made or chosen.                     *)
(***************************************************************************)
KeyError == "KeyError"
TypeError == "TypeError"
UnboundLocalError == "UnboundLocalError"

InList(l, x) == \E i \in 1..Len(l) : l[i] = x
ListSet(l) == {l[i] : i \in 1..Len(l)}

\* l with the element at 0-based index k removed (k = -1: unchanged)
RemoveAt(l, k) == IF k = -1 THEN l ELSE SubSeq(l, 1, k) \o SubSeq(l, k + 2, Len(l))

\* list.remove(x) on a list that holds x: the first occurrence goes
ListRemove(l, x) == RemoveAt(l, ListIndex(l, x))

\* [x for x in l if x not in s]
ListWithout(l, s) == SelectSeq(l, LAMBDA x : x \notin s)

\* The elements of l at the indices keep, in order
Pick(l, keep) ==
    [q \in 1..Cardinality(keep) |->
        l[CHOOSE i \in keep : Cardinality({j \in keep : j < i}) = q - 1]]

\* The keys of a dict built by inserting the elements of l in order
FirstOccurrences(l) ==
    Pick(l, {i \in 1..Len(l) : \A j \in 1..(i - 1) : l[j] # l[i]})

\* A new list object: it gets the next address
Alloc(m, l) == [m EXCEPT !.h = Append(@, l), !.a = Len(m.h) + 1]

Raise(m, e) == [m EXCEPT !.err = e]

(***************************************************************************)
(* pandas: a DataFrame is a sequence of columns [name, dtype, cells], the  *)
(* multi-index DataFrame mi_df a sequence of columns [g, name, dtype,      *)
(* cells] (g the group: locations, annotations or values) plus its index   *)
(* of wells.  dtype tells how sort_values orders the cells: "int", "str"   *)
(* (Python str, as a sequence of characters) or "val" (annotation values,  *)
(* None last).                                                             *)
(***************************************************************************)
StrWell == <<"w", "e", "l", "l">>
StrRow == <<"r", "o", "w">>
StrColumn == <<"c", "o", "l", "u", "m", "n">>

\* value_name=None
NoName == <<>>

ColNames(df) == [i \in 1..Len(df) |-> df[i].name]
HasCol(df, name) == \E i \in 1..Len(df) : df[i].name = name

\* df[name]
ColOf(df, name) == df[CHOOSE i \in 1..Len(df) : df[i].name = name]

\* del df[name]
DelCol(df, name) == SelectSeq(df, LAMBDA c : c.name # name)

HasMi(mi, g, name) == \E i \in 1..Len(mi) : mi[i].g = g /\ mi[i].name = name
MiOf(mi, g, name) == mi[CHOOSE i \in 1..Len(mi) : mi[i].g = g /\ mi[i].name = name]

\* del mi_df[(g, name)]
DelMi(mi, g, name) == SelectSeq(mi, LAMBDA c : ~(c.g = g /\ c.name = name))

\* mi_df[(g, name)] = cells: in place when the column exists, else last
SetMi(mi, c) ==
    IF HasMi(mi, c.g, c.name)
    THEN [i \in 1..Len(mi) |-> IF mi[i].g = c.g /\ mi[i].name = c.name THEN c ELSE mi[i]]
    ELSE Append(mi, c)

\* _from_midf: the index becomes the first column, the group level is dropped
_from_midf(name, index, mi) ==
    <<[name |-> name, dtype |-> "str", cells |-> index]>>
        \o [i \in 1..Len(mi) |->
              [name |-> mi[i].name, dtype |-> mi[i].dtype, cells |-> mi[i].cells]]

\* The order of sort_values on the cells of one column: numbers by value,
\* str by code point, annotation values in the order of ValOrder, None last
CharOrder == Digits \o UpperLetters \o LowerLetters

StrLess(s, t) ==
    \E k \in 1..Len(t) :
        /\ \A j \in 1..(k - 1) : j <= Len(s) /\ s[j] = t[j]
        /\ (k > Len(s) \/ ListIndex(CharOrder, s[k]) < ListIndex(CharOrder, t[k]))

ValOrder == <<"v1", "v2", "v3", "v4">>

CellLess(dtype, v, w) ==
    CASE dtype = "int" -> v < w
      [] dtype = "str" -> StrLess(v, w)
      [] OTHER -> v # None /\ (w = None \/ ListIndex(ValOrder, v) < ListIndex(ValOrder, w))

\* Row i comes before row j in the order of the columns by (first column
\* first)
RowLess(by, i, j) ==
    \E k \in 1..Len(by) :
        /\ \A q \in 1..(k - 1) : by[q].cells[i] = by[q].cells[j]
        /\ CellLess(by[k].dtype, by[k].cells[i], by[k].cells[j])

\* The rows of a table of n rows in the (stable) order of sort_values(by):
\* SortPerm[q] is the row that comes q-th
SortPos(by, n, i) ==
    1 + Cardinality({j \in 1..n : RowLess(by, j, i) \/ (~RowLess(by, i, j) /\ j < i)})

\* sort_values that repeats the first row in every position
SortPermFirst(by, n) == [q \in 1..n |-> 1]

SortPerm(by, n) == [q \in 1..n |-> CHOOSE i \in 1..n : SortPos(by, n, i) = q]

Permute(cells, perm) == [q \in 1..Len(perm) |-> cells[perm[q]]]

\* The table with its rows in the order perm
PermuteRows(t, perm) == [i \in 1..Len(t) |-> [t[i] EXCEPT !.cells = Permute(@, perm)]]

(***************************************************************************)
(* util/_validators.py                                                     *)
(***************************************************************************)
\* check_inputs(Plate) for data given as a DataFrame: the exception raised.
\* Plate has no wells attribute and no values yet when check_inputs runs;
\* both reads (lines 14-47) are taken as None, which leaves the DataFrame
\* checks.
WellCols(data) == SelectSeq(ColNames(data), LAMBDA c : Lower(c) = StrWell)

check_inputs(data, value_name) ==
    IF ~InList(WellCols(data), StrWell) THEN ValueError
    ELSE IF Len(WellCols(data)) # 1 THEN ValueError
    ELSE IF value_name = NoName /\ WellCols(data)[1] = data[Len(data)].name THEN ValueError
    ELSE IF value_name # NoName /\ ~HasCol(data, value_name) THEN ValueError
    ELSE NoErr

\* check_df_col(plate.df, column): the exception raised.  The callers hand
\* it the DataFrame, so its columns are the columns of that table.
check_df_col(df, column) == IF ~HasCol(df, column) THEN ValueError ELSE NoErr

(***************************************************************************)
(* plate.py: construction                                                  *)
(***************************************************************************)
\* _generate_df on a DataFrame: [err, df, _value_name, _well, _row, _col]
FirstNamed(df, str, default) ==
    IF \E i \in 1..Len(df) : Lower(df[i].name) = str
    THEN df[CHOOSE i \in 1..Len(df) :
              Lower(df[i].name) = str /\ \A j \in 1..(i - 1) : Lower(df[j].name) # str].name
    ELSE default

\* rows and cols from the wells, inserted after the well column
InsertRowCol(df, vn, _well, _row, _col, wells) ==
    IF \E i \in 1..Len(wells) : wells[i] = <<>>
    THEN [err |-> IndexError, df |-> df, _value_name |-> vn,
          _well |-> _well, _row |-> _row, _col |-> _col]
    ELSE IF \E i \in 1..Len(wells) : ~PyIntOk(Tail(wells[i]))
    THEN [err |-> ValueError, df |-> df, _value_name |-> vn,
          _well |-> _well, _row |-> _row, _col |-> _col]
    ELSE IF HasCol(df, _col) \/ HasCol(df, _row)
    THEN [err |-> ValueError, df |-> df, _value_name |-> vn,
          _well |-> _well, _row |-> _row, _col |-> _col]
    ELSE [err |-> NoErr,
          df |-> <<df[1],
                   [name |-> _row, dtype |-> "str",
                    cells |-> [i \in 1..Len(wells) |-> <<Head(wells[i])>>]],
                   [name |-> _col, dtype |-> "int",
                    cells |-> [i \in 1..Len(wells) |-> PyInt(Tail(wells[i]))]]>>
                  \o Tail(df),
          _value_name |-> vn, _well |-> _well, _row |-> _row, _col |-> _col]

\* try: del df[_row]; del df[_col]; except KeyError: pass
DropRowCol(df, vn, _well, _row, _col) ==
    InsertRowCol(IF HasCol(df, _row) THEN DelCol(DelCol(df, _row), _col) ELSE df,
                 vn, _well, _row, _col, df[1].cells)

\* The well column moved to the front
WellFirst(df, vn, _well) ==
    DropRowCol(<<ColOf(df, _well)>> \o DelCol(df, _well), vn, _well,
               FirstNamed(df, StrRow, StrRow), FirstNamed(df, StrColumn, StrColumn))

_generate_df(data, value_name) ==
    IF value_name = NoName
    THEN WellFirst(data, data[Len(data)].name, FirstNamed(data, StrWell, StrWell))
    ELSE WellFirst(DelCol(data, value_name) \o <<ColOf(data, value_name)>>, value_name,
                   FirstNamed(data, StrWell, StrWell))

\* _generate_mi_df: the columns of df after the well, labelled by the group
\* that lists them
GroupTuples(g, l, _well) ==
    [i \in 1..Len(ListWithout(l, {_well})) |->
        [g |-> g, name |-> ListWithout(l, {_well})[i]]]

_generate_mi_df(df, tuples) ==
    [i \in 1..Len(tuples) |->
        [g |-> tuples[i].g, name |-> tuples[i].name,
         dtype |-> ColOf(df, tuples[i].name).dtype,
         cells |-> ColOf(df, tuples[i].name).cells]]

\* A plate that was not made
NoPlate == [df |-> <<>>]

\* __init__ from the zero_padding setter on: z is what the setter computes
\* from the wells of df
InitPadding(m, g, mi, z) ==
    IF z.err # NoErr THEN [m EXCEPT !.err = z.err, !.p = NoPlate]
    ELSE [m EXCEPT !.p =
            [df |-> _from_midf(g._well, z.wells, mi),
             index |-> z.wells,
             mi |-> mi,
             _well |-> g._well, _row |-> g._row, _col |-> g._col,
             _value_name |-> g._value_name,
             _zero_padding |-> z.zero_padding,
             _locations |-> Len(m.h) - 2,
             _annotations |-> Len(m.h) - 1,
             _values |-> Len(m.h),
             _column_dict |-> [locations |-> Len(m.h) - 2,
                               annotations |-> Len(m.h) - 1,
                               values |-> Len(m.h)]]]

\* __init__ from _generate_mi_df on: the three lists are the last three of
\* the heap
InitMiDf(m, g, zero_padding, tuples) ==
    IF Len(tuples) # Len(g.df) - 1 THEN [m EXCEPT !.err = ValueError, !.p = NoPlate]
    ELSE InitPadding(m, g, _generate_mi_df(g.df, tuples),
                     ZeroPaddingSetter(g.df[1].cells, zero_padding))

\* __init__ from the high-level attributes on
InitLists(h, g, zero_padding, locations, annotations) ==
    InitMiDf([h |-> h \o <<locations, annotations, <<g._value_name>> >>,
              p |-> NoPlate, err |-> NoErr, a |-> 0],
             g, zero_padding,
             GroupTuples("locations", locations, g._well)
                \o GroupTuples("annotations", annotations, g._well)
                \o GroupTuples("values", <<g._value_name>>, g._well))

InitDf(h, g, zero_padding) ==
    IF g.err # NoErr THEN [h |-> h, p |-> NoPlate, err |-> g.err, a |-> 0]
    ELSE InitLists(h, g, zero_padding, <<g._well, g._row, g._col>>,
                   ListWithout(ColNames(g.df), {g._well, g._row, g._col, g._value_name}))

\* Plate(data, value_name=value_name, zero_padding=zero_padding) for a
\* DataFrame, case=None and annotate=None, on the heap h
__init__(h, data, value_name, zero_padding) ==
    IF check_inputs(data, value_name) # NoErr
    THEN [h |-> h, p |-> NoPlate, err |-> check_inputs(data, value_name), a |-> 0]
    ELSE InitDf(h, _generate_df(data, value_name), zero_padding)

\* plate.zero_padding = padding on a plate: the wells of df are padded into
\* the index of mi_df and df is made again from mi_df; z is what the setter
\* computes from the wells of df
PaddedPlate(m, z) ==
    IF z.err # NoErr THEN Raise([m EXCEPT !.p._zero_padding = z.zero_padding], z.err)
    ELSE [m EXCEPT !.p._zero_padding = z.zero_padding,
                   !.p.index = z.wells,
                   !.p.df = _from_midf(m.p._well, z.wells, m.p.mi)]

PlateZeroPadding(m, padding) ==
    PaddedPlate(m, ZeroPaddingSetter(ColOf(m.p.df, m.p._well).cells, padding))

(***************************************************************************)
(* plate.py: the column_dict setter and the setters of the three groups   *)
(***************************************************************************)
\* for base_loc in base_locs: a list without the well name is replaced by a
\* new list that starts with it, a list without the row or column name gets
\* it appended in place.  m.a is the list, before and after.
BaseLoc(m, base_loc) ==
    IF InList(m.h[m.a], base_loc) THEN m
    ELSE IF base_loc = m.p._well THEN Alloc(m, <<base_loc>> \o m.h[m.a])
    ELSE [m EXCEPT !.h[m.a] = Append(@, base_loc)]

BaseLocs(m) == BaseLoc(BaseLoc(BaseLoc(m, m.p._well), m.p._row), m.p._col)

\* for val in old_values: if val in attr_list: attr_list.remove(val)
RECURSIVE RemoveEach(_, _, _)
RemoveEach(l, vals, i) ==
    IF i > Len(vals) THEN l ELSE RemoveEach(ListRemove(l, vals[i]), vals, i + 1)

\* list(self.mi_df.xs('values', axis=1).columns)
ValuesOfMi(mi) ==
    [i \in 1..Len(SelectSeq(mi, LAMBDA c : c.g = "values")) |->
        SelectSeq(mi, LAMBDA c : c.g = "values")[i].name]

\* column_dict setter, no value left: column_dict['values'] is reset to the
\* value columns of mi_df (a new list), these are removed from the lists
\* of locations and annotations, and ValueError is raised
ResetValues(m, old_values) ==
    IF old_values = <<>> THEN Raise(m, KeyError)
    ELSE [m EXCEPT
            !.h = [i \in 1..(Len(m.h) + 1) |->
                     IF i = Len(m.h) + 1 THEN old_values
                     ELSE IF i \in {m.p._locations, m.p._annotations}
                          THEN RemoveEach(m.h[i], old_values, 1)
                          ELSE m.h[i]],
            !.p._column_dict.values = Len(m.h) + 1,
            !.err = ValueError]

KeyTuples(g, l) == [i \in 1..Len(l) |-> [g |-> g, name |-> l[i]]]

\* column_dict setter, set_index on: the well column becomes the index, df
\* is rebuilt and the three groups are the lists of column_dict
CdIndex(m, sorted) ==
    IF ~HasMi(sorted, "locations", m.p._well) THEN Raise(m, KeyError)
    ELSE [m EXCEPT
            !.p.index = MiOf(sorted, "locations", m.p._well).cells,
            !.p.mi = DelMi(sorted, "locations", m.p._well),
            !.p.df = _from_midf(m.p._well, MiOf(sorted, "locations", m.p._well).cells,
                                DelMi(sorted, "locations", m.p._well)),
            !.p._locations = m.p._column_dict.locations,
            !.p._annotations = m.p._column_dict.annotations,
            !.p._values = m.p._column_dict.values]

\* column_dict setter, sort_values on: by the columns of self.locations[1:]
CdSort(m, new, by) ==
    IF \E i \in 1..Len(by) : ~HasMi(new, "locations", by[i])
    THEN [Raise(m, KeyError) EXCEPT !.p.mi = new]
    ELSE CdIndex(m, PermuteRows(new,
                     SortPerm([i \in 1..Len(by) |-> MiOf(new, "locations", by[i])],
                              Len(m.p.index))))

\* column_dict setter, new_dict on: full is mi_df.reset_index(), keys the
\* key pairs of column_dict; a pair that full lacks takes its data from df
CdArrange(m, full, keys) ==
    IF \E i \in 1..Len(keys) :
          ~HasMi(full, keys[i].g, keys[i].name) /\ ~HasCol(m.p.df, keys[i].name)
    THEN Raise(m, KeyError)
    ELSE CdSort(m,
                [i \in 1..Len(keys) |->
                    IF HasMi(full, keys[i].g, keys[i].name)
                    THEN MiOf(full, keys[i].g, keys[i].name)
                    ELSE [g |-> keys[i].g, name |-> keys[i].name,
                          dtype |-> ColOf(m.p.df, keys[i].name).dtype,
                          cells |-> ColOf(m.p.df, keys[i].name).cells]],
                PyTail(m.h[m.p._locations], 1))

\* column_dict setter, after the loop over base_locs: m.a is locs
CdLocs(m) ==
    IF HasMi(m.p.mi, "locations", m.p._well) THEN Raise(m, ValueError)
    ELSE CdArrange([m EXCEPT !.p._column_dict.locations = m.a],
                   <<[g |-> "locations", name |-> m.p._well, dtype |-> "str",
                      cells |-> m.p.index]>> \o m.p.mi,
                   FirstOccurrences(
                       KeyTuples("locations", m.h[m.a])
                         \o KeyTuples("annotations", m.h[m.p._column_dict.annotations])
                         \o KeyTuples("values", m.h[m.p._column_dict.values])))

\* self.column_dict = column_dict, a dict of the three list addresses
ColumnDictSetter(m, column_dict) ==
    IF m.h[column_dict.values] = <<>>
    THEN ResetValues([m EXCEPT !.p._column_dict = column_dict], ValuesOfMi(m.p.mi))
    ELSE CdLocs(BaseLocs([m EXCEPT !.p._column_dict = column_dict,
                                   !.a = column_dict.locations]))

\* self.column_dict = {'locations': self.locations, 'annotations':
\* self.annotations, 'values': self.values}
ResetColumnDict(m) ==
    ColumnDictSetter(m, [locations |-> m.p._locations,
                         annotations |-> m.p._annotations,
                         values |-> m.p._values])

\* self._locations = [loc for loc in self._locations if loc not in check]
\* when the check set(l) & set(self.locations) is not empty
DropFromLocations(m, l) ==
    IF ListSet(l) \cap ListSet(m.h[m.p._locations]) = {} THEN m
    ELSE [m EXCEPT !.h = Append(@, ListWithout(m.h[m.p._locations], ListSet(l))),
                   !.p._locations = Len(m.h) + 1]

DropFromAnnotations(m, l) ==
    IF ListSet(l) \cap ListSet(m.h[m.p._annotations]) = {} THEN m
    ELSE [m EXCEPT !.h = Append(@, ListWithout(m.h[m.p._annotations], ListSet(l))),
                   !.p._annotations = Len(m.h) + 1]

DropFromValues(m, l) ==
    IF ListSet(l) \cap ListSet(m.h[m.p._values]) = {} THEN m
    ELSE [m EXCEPT !.h = Append(@, ListWithout(m.h[m.p._values], ListSet(l))),
                   !.p._values = Len(m.h) + 1]

\* Plate.locations = locations, the list at m.a
LocationsFrom(m) ==
    ResetColumnDict(
        DropFromValues(
            DropFromAnnotations([m EXCEPT !.p._locations = m.a], m.h[m.a]),
            m.h[m.a]))

LocationsSetter(m) == LocationsFrom(BaseLocs(m))

\* Plate.annotations = annotations, the list at m.a
AnnotationsSetter(m) ==
    ResetColumnDict(
        DropFromValues(
            DropFromLocations([m EXCEPT !.p._annotations = m.a], m.h[m.a]),
            m.h[m.a]))

\* Plate.values = values, the list at m.a
ValueNameLast(m) ==
    IF m.err # NoErr THEN m
    ELSE [m EXCEPT !.p._value_name = m.h[m.p._values][Len(m.h[m.p._values])]]

ValuesSetter(m) ==
    IF m.h[m.a] = <<>> THEN Raise(m, ValueError)
    ELSE ValueNameLast(
            ResetColumnDict(
                DropFromAnnotations(
                    DropFromLocations([m EXCEPT !.p._values = m.a], m.h[m.a]),
                    m.h[m.a])))

(***************************************************************************)
(* plate.py: item assignment and deletion                                  *)
(***************************************************************************)
\* plate[key] = value (case=None): the column (annotations, key) of mi_df is
\* set to the value in every row, and a key that is not an annotation yet
\* is assigned with a new annotations list
__setitem__(m, key, value) ==
    IF InList(m.h[m.p._annotations], key)
    THEN [m EXCEPT !.p.mi = SetMi(@, [g |-> "annotations", name |-> key, dtype |-> "val",
                                      cells |-> [i \in 1..Len(m.p.index) |-> value]])]
    ELSE AnnotationsSetter(
            Alloc([m EXCEPT !.p.mi = SetMi(@, [g |-> "annotations", name |-> key,
                                                dtype |-> "val",
                                                cells |-> [i \in 1..Len(m.p.index) |-> value]])],
                  Append(m.h[m.p._annotations], key)))

\* The body of the loop of __delitem__ for one group whose list is at a
DelFrom(m, g, a, key) ==
    IF m.err # NoErr \/ ~InList(m.h[a], key) THEN m
    ELSE IF ~HasMi(m.p.mi, g, key)
         THEN [m EXCEPT !.h[a] = ListRemove(@, key), !.err = KeyError]
         ELSE [m EXCEPT !.h[a] = ListRemove(@, key), !.p.mi = DelMi(@, g, key)]

\* del plate[key]
__delitem__(m, key) ==
    IF key \in {m.p._well, m.p._row, m.p._col} THEN Raise(m, ValueError)
    ELSE IF ~HasCol(m.p.df, key) THEN Raise(m, KeyError)
    ELSE DelFrom(
            DelFrom(
                DelFrom([m EXCEPT !.p.df = DelCol(@, key)],
                        "locations", m.p._locations, key),
                "annotations", m.p._annotations, key),
            "values", m.p._values, key)

(***************************************************************************)
(* util/_plate_attrs.py: the wrapped DataFrame.copy                        *)
(***************************************************************************)
\* as_plate from plate.values = values on
CopyValues(m, src) ==
    IF m.err # NoErr THEN m ELSE ValuesSetter([m EXCEPT !.a = src._values])

\* as_plate from plate.locations = locations on: both lists are the lists
\* of the plate copied, not copies of them
CopyLocations(m, src) ==
    IF m.err # NoErr THEN m
    ELSE CopyValues(LocationsSetter([m EXCEPT !.a = src._locations]), src)

\* Plate.copy(): Plate.df.copy().as_plate(Plate.locations, Plate.values)
Copy(h, src) ==
    IF h[src._values] = <<>> THEN [h |-> h, p |-> NoPlate, err |-> IndexError, a |-> 0]
    ELSE CopyLocations(__init__(h, src.df, h[src._values][Len(h[src._values])], None), src)

(***************************************************************************)
(* plate.py: set_as_location, set_as_value                                 *)
(***************************************************************************)
\* set_as_location from locs = plate._locations on
InsertLoc(m, loc, idx) ==
    IF idx = -1
    THEN LocationsSetter([m EXCEPT !.h[m.p._locations] = Append(@, loc),
                                   !.a = m.p._locations])
    ELSE LocationsSetter(Alloc(m, PySlice(m.h[m.p._locations], 0, idx + 1)
                                    \o <<loc>>
                                    \o PyTail(m.h[m.p._locations], idx + 1)))

\* set_as_location after the copy
LocOfCopy(m, loc, idx) ==
    IF m.err # NoErr THEN m
    ELSE IF check_df_col(m.p.df, loc) # NoErr THEN Raise(m, check_df_col(m.p.df, loc))
    ELSE InsertLoc([m EXCEPT !.h[m.p._locations] = ListRemove(@, loc)], loc, idx)

set_as_location(h, self, loc, idx) == LocOfCopy(Copy(h, self), loc, idx)

\* set(new_values): the characters of a str, the elements of a list
SetOf(new_values) ==
    IF new_values.list THEN ListSet(new_values.v)
    ELSE {<<new_values.v[i]>> : i \in 1..Len(new_values.v)}

\* set_as_value from the update of value_name on; m.a is values
MainValue(m, value_name) ==
    IF value_name = NoName THEN ValuesSetter(m)
    ELSE IF ~InList(m.h[m.a], value_name) THEN Raise(m, ValueError)
    ELSE ValuesSetter([m EXCEPT !.h[m.a] = Append(ListRemove(@, value_name), value_name)])

\* set_as_value after the copy; new_values is [list, v]: a list of names or
\* one name.  values is bound only when new_values is not a list.
ValueOfCopy(m, new_values, value_name) ==
    IF m.err # NoErr THEN m
    ELSE IF ListSet(m.h[m.p._values]) \cap SetOf(new_values) # {} THEN Raise(m, ValueError)
    ELSE IF new_values.list THEN Raise(m, UnboundLocalError)
    ELSE MainValue(Alloc(m, <<new_values.v>> \o m.h[m.p._values]), value_name)

set_as_value(h, self, new_values, value_name) ==
    ValueOfCopy(Copy(h, self), new_values, value_name)

(***************************************************************************)
(* check_annotations and annotate_wells for a nested dictionary            *)
(***************************************************************************)
\* acceptable_kwargs
Sentinels == {<<"d", "e", "f", "a", "u", "l", "t">>,
              <<"s", "t", "a", "n", "d", "a", "r", "d">>,
              <<"e", "l", "s", "e">>,
              <<"o", "t", "h", "e", "r">>}

\* acceptable_wells: rows A..P and columns 1..24, unpadded and padded
CheckRows == SubSeq(UpperLetters, 1, 16)
\* AcceptableWells with the columns 0 and 25 as well
AcceptableWellsWider ==
    {<<CheckRows[r]>> \o PyStr(c) : r \in 1..Len(CheckRows), c \in 0..(LastColumn + 1)}
        \cup {pad(<<CheckRows[r]>> \o PyStr(c), TRUE).well :
                r \in 1..Len(CheckRows), c \in 0..(LastColumn + 1)}

AcceptableWells ==
    {<<CheckRows[r]>> \o PyStr(c) : r \in 1..Len(CheckRows), c \in 1..LastColumn}
        \cup {pad(<<CheckRows[r]>> \o PyStr(c), TRUE).well :
                r \in 1..Len(CheckRows), c \in 1..LastColumn}

\* CheckKeys that accepts any number of default keys
CheckKeysAnyNumber(nonwell_keys) ==
    IF \E k \in nonwell_keys : Lower(k) \notin Sentinels THEN ValueError ELSE NoErr

\* CheckKeys that does not compare the one non-well key with the sentinels
CheckKeysUncompared(nonwell_keys) ==
    IF Cardinality(nonwell_keys) > 1 THEN ValueError ELSE NoErr

\* The checks of check_annotations on the keys of one parsed column
CheckKeys(nonwell_keys) ==
    IF Cardinality(nonwell_keys) = 0 THEN NoErr
    ELSE IF Cardinality(nonwell_keys) > 1 THEN ValueError
    ELSE IF \E k \in nonwell_keys : Lower(k) \notin Sentinels THEN ValueError
    ELSE NoErr

CheckColumn(w) ==
    IF w.err # NoErr THEN w.err ELSE CheckKeys(ListSet(DictKeys(w.dict)) \ AcceptableWells)

\* check_annotations(Plate, annotations): the exception of the first column
\* that raises
RECURSIVE check_annotations(_, _, _)
CheckNext(zero_padding, annotations, i, e) ==
    IF e # NoErr THEN e ELSE check_annotations(zero_padding, annotations, i + 1)

check_annotations(zero_padding, annotations, i) ==
    IF i > Len(annotations) THEN NoErr
    ELSE CheckNext(zero_padding, annotations, i,
                   CheckColumn(well_regex(annotations[i][2], zero_padding)))

\* for key in working_annotations.keys(): if key.lower() in
\* acceptable_kwargs: default = working_annotations[key]
DefaultOf(d) ==
    IF \E i \in 1..Len(d) : Lower(d[i][1]) \in Sentinels
    THEN d[CHOOSE i \in 1..Len(d) :
             Lower(d[i][1]) \in Sentinels
               /\ \A j \in (i + 1)..Len(d) : Lower(d[j][1]) \notin Sentinels][2]
    ELSE None

\* index.map(working_annotations.get), then replace({None: default})
MapIndex(index, d, default) ==
    [i \in 1..Len(index) |->
        IF DictGet(d, index[i]) = None THEN default ELSE DictGet(d, index[i])]

\* The loop of annotate_wells over the columns of the dictionary
RECURSIVE AnnotateLoop(_, _, _)
AnnotateColumn(m, annotations, i, w) ==
    IF w.err # NoErr THEN Raise(m, w.err)
    ELSE AnnotateLoop(
            [m EXCEPT !.p.mi = SetMi(@, [g |-> "annotations", name |-> annotations[i][1],
                                         dtype |-> "val",
                                         cells |-> MapIndex(m.p.index, w.dict,
                                                            DefaultOf(w.dict))])],
            annotations, i + 1)

AnnotateLoop(m, annotations, i) ==
    IF i > Len(annotations) THEN m
    ELSE AnnotateColumn(m, annotations, i,
                        well_regex(annotations[i][2], m.p._zero_padding))

\* plate.annotations = [*plate.annotations, *new_annotations]
NewAnnotations(m, annotations) ==
    IF m.err # NoErr THEN m
    ELSE AnnotationsSetter(
            Alloc(m, m.h[m.p._annotations]
                       \o ListWithout(DictKeys(annotations),
                                      ListSet(m.h[m.p._annotations]))))

\* annotate_wells after the copy: the check reads the padding of self, the
\* loop that of the copy
AnnotateCopy(m, zero_padding, annotations) ==
    IF m.err # NoErr THEN m
    ELSE IF check_annotations(zero_padding, annotations, 1) # NoErr
         THEN Raise(m, check_annotations(zero_padding, annotations, 1))
         ELSE NewAnnotations(AnnotateLoop(m, annotations, 1), annotations)

\* self.annotate_wells(annotations), annotations a dict of dicts
annotate_wells(h, self, annotations) ==
    AnnotateCopy(Copy(h, self), self._zero_padding, annotations)


(***************************************************************************)
(* Inputs of the parser: keys written with the bracket grammar             *)
(***************************************************************************)
\* The largest column number written in a key, and the largest of the low
\* column numbers 1..LowColumn written next to 9..MaxColumn
MaxColumn == 11
LowColumn == 2
\* The largest number of keys of a mapping
MaxKeys == 2
\* The largest number of successive calls of pad on one well
MaxPads == 2

Br(body) == <<"[">> \o body \o <<"]">>
Hyphen(x, y) == x \o <<"-">> \o y
Comma(x, y) == x \o <<",">> \o y

\* Row letters written in keys: in the alphabet (with the gap between H and
\* J) and, with I and K, outside it
InRows == {<<"A">>, <<"B">>, <<"C">>, <<"H">>, <<"J">>, <<"I">>, <<"K">>}

ColNumbers == (1..LowColumn) \cup (9..MaxColumn)
ColTokens == {PyStr(n) : n \in ColNumbers}
                \cup {<<"0">> \o PyStr(n) : n \in {m \in ColNumbers : m < 10}}

RowBrackets ==
    {Br(x) : x \in InRows}
        \cup {Br(Hyphen(x, y)) : x, y \in InRows}
        \cup {Br(Comma(x, y)) : x, y \in InRows}
        \cup {Br(Comma(Hyphen(x, y), z)) : x, y, z \in InRows}

ColBrackets ==
    {Br(Hyphen(a, b)) : a, b \in ColTokens}
        \cup {Br(Comma(a, b)) : a, b \in ColTokens}

\* Keys that vary the row axis, keys that vary the column axis
RowAxisKeys == {r \o c : r \in InRows \cup RowBrackets,
                         c \in {<<"1">>, <<"0", "1">>, <<"1", "0">>}}
ColAxisKeys == {r \o c : r \in {<<"A">>, Br(Comma(<<"A">>, <<"B">>))},
                         c \in ColTokens \cup ColBrackets}

\* The keys of the mappings of several keys: wells in both forms and ranges
\* that overlap them, and the default sentinels
SmallKeys ==
    {<<"A", "1">>, <<"A", "0", "1">>, <<"A", "2">>, <<"B", "1">>, <<"A", "1", "0">>,
     Br(Hyphen(<<"A">>, <<"B">>)) \o <<"1">>,
     <<"A">> \o Br(Hyphen(<<"1">>, <<"2">>)),
     <<"A">> \o Br(Hyphen(<<"0", "1">>, <<"0", "2">>)),
     <<"A">> \o Br(Comma(<<"1">>, <<"2">>)),
     <<"A">> \o Br(Hyphen(<<"1", "0">>, <<"1", "1">>)),
     Br(Hyphen(<<"A">>, <<"B">>)) \o Br(Hyphen(<<"1">>, <<"2">>)),
     <<"o", "t", "h", "e", "r">>}

\* Wells given to pad: a row character and a column number up to the last
\* column, written without or with one leading zero
PadInputs == {r \o c : r \in InRows,
                      c \in {PyStr(n) : n \in 0..LastColumn}
                              \cup {<<"0">> \o PyStr(n) : n \in 0..LastColumn}}

\* The value of the i-th key
Values == <<"v1", "v2", "v3", "v4">>
ValueOf(i) == Values[i]

KeyLists == UNION {[1..n -> SmallKeys] : n \in 2..MaxKeys}

InputDicts ==
    {<< <<k, ValueOf(1)>> >> : k \in RowAxisKeys \cup ColAxisKeys \cup SmallKeys}
        \cup {[i \in DOMAIN ks |-> <<ks[i], ValueOf(i)>>] :
                ks \in {l \in KeyLists : \A i, j \in DOMAIN l : i # j => l[i] # l[j]}}

(***************************************************************************)
(* State                                                                   *)
(***************************************************************************)
VARIABLES
    input_dict,     \* the mapping passed to well_regex
    padded,         \* the padded argument / the value assigned to zero_padding
    output,         \* what well_regex returned: [err, dict], or Unset
    wells_out,      \* what the zero_padding setter left: [err, zero_padding, wells]
    well0,          \* the well first given to pad
    well,           \* the well returned by the last call of pad
    flags,          \* the padded arguments of the calls of pad so far
    heap,           \* the list objects the plates hold, by address
    plates,         \* the plates the caller holds
    call,           \* the last call on a plate: [op, err, arg]
    ops             \* the number of calls on plates so far

regex_vars == <<input_dict, padded, output, wells_out>>
pad_vars == <<well0, well, flags>>
plate_vars == <<heap, plates, call, ops>>
vars == <<input_dict, padded, output, wells_out, well0, well, flags,
          heap, plates, call, ops>>

Unset == [err |-> "unset"]

RegexIdle ==
    /\ input_dict = <<>>
    /\ padded = None
    /\ output = Unset
    /\ wells_out = Unset

PadIdle ==
    /\ well0 = <<>>
    /\ well = <<>>
    /\ flags = <<>>

NoCall == [op |-> "", err |-> NoErr, arg |-> <<>>]

PlateIdle ==
    /\ heap = <<>>
    /\ plates = <<>>
    /\ call = NoCall
    /\ ops = 0

(***************************************************************************)
(* SpecRegex: well_regex and the zero_padding setter applied to an input   *)
(***************************************************************************)
RegexInit ==
    /\ input_dict \in InputDicts
    /\ padded \in {PTrue, PFalse, None}
    /\ output = Unset
    /\ wells_out = Unset
    /\ PadIdle
    /\ PlateIdle

\* output = well_regex(input_dict, padded)
CallWellRegex ==
    /\ input_dict # <<>>
    /\ output = Unset
    /\ output' = well_regex(input_dict, padded)
    /\ UNCHANGED <<input_dict, padded, wells_out>>
    /\ UNCHANGED pad_vars
    /\ UNCHANGED plate_vars

\* Plate.zero_padding = padded, on a table whose well column holds the keys
\* (a well column holds strings that _generate_df could split into a row and
\* an int column)
AllWells(d) == \A i \in 1..Len(d) : Len(d[i][1]) > 1 /\ PyIntOk(Tail(d[i][1]))

SetZeroPadding ==
    /\ input_dict # <<>>
    /\ wells_out = Unset
    /\ AllWells(input_dict)
    /\ wells_out' = ZeroPaddingSetter(DictKeys(input_dict), padded)
    /\ UNCHANGED <<input_dict, padded, output>>
    /\ UNCHANGED pad_vars
    /\ UNCHANGED plate_vars

RegexNext == CallWellRegex \/ SetZeroPadding

SpecRegex == RegexInit /\ [][RegexNext]_vars

(***************************************************************************)
(* SpecPad: successive calls of pad on one well                            *)
(***************************************************************************)
PadInit ==
    /\ well0 \in PadInputs
    /\ well = well0
    /\ flags = <<>>
    /\ RegexIdle
    /\ PlateIdle

\* well = pad(well, p)
CallPad(p) ==
    /\ well0 # <<>>
    /\ Len(flags) < MaxPads
    /\ pad(well, p).err = NoErr
    /\ well' = pad(well, p).well
    /\ flags' = Append(flags, p)
    /\ UNCHANGED well0
    /\ UNCHANGED regex_vars
    /\ UNCHANGED plate_vars

PadNext == \E p \in BOOLEAN : CallPad(p)

SpecPad == PadInit /\ [][PadNext]_vars

(***************************************************************************)
(* Spec: a plate made from a DataFrame, and calls on the plates held       *)
(***************************************************************************)
\* The largest number of calls on plates in one run
MaxOps == 2

StrValue == <<"v", "a", "l", "u", "e">>
StrOd == <<"o", "d">>
StrCond == <<"c", "o", "n", "d">>

\* The well columns of the DataFrames: unpadded, padded, not in row and
\* column order, and without a one-digit column
WellLists ==
    {<< <<"A", "1">>, <<"A", "2">> >>,
     << <<"A", "0", "1">>, <<"A", "0", "2">> >>,
     << <<"B", "1">>, <<"A", "1">> >>,
     << <<"A", "1", "0">>, <<"A", "1", "1">> >>}

\* pd.DataFrame({'well': wells, ['od': ...,] 'value': ...})
Frame(wells, od) ==
    <<[name |-> StrWell, dtype |-> "str", cells |-> wells]>>
        \o (IF od THEN <<[name |-> StrOd, dtype |-> "int",
                          cells |-> [i \in 1..Len(wells) |-> 10 * i]]>>
            ELSE <<>>)
        \o <<[name |-> StrValue, dtype |-> "int", cells |-> [i \in 1..Len(wells) |-> i]]>>

\* The column names of the DataFrames that vary the well column: its name
\* in another case, no well column, and two well columns
StrWellTitle == <<"W", "e", "l", "l">>
StrWellUpper == <<"W", "E", "L", "L">>
Headers ==
    {<<StrWellTitle, StrValue>>, <<StrWellUpper, StrValue>>, <<StrOd, StrValue>>,
     <<StrWell, StrWellTitle, StrValue>>, <<StrWellTitle, StrWellUpper, StrValue>>}

\* pd.DataFrame with the columns header: wells under each well-like name,
\* numbers under the others
Headed(header) ==
    [i \in 1..Len(header) |->
        IF Lower(header[i]) = StrWell
        THEN [name |-> header[i], dtype |-> "str",
              cells |-> << <<"A", "1">>, <<"A", "2">> >>]
        ELSE [name |-> header[i], dtype |-> "int", cells |-> <<i, 2 * i>>]]

\* The lists assigned to locations, annotations and values
ListNames == {StrRow, StrOd, StrValue}
ColumnLists ==
    {<<>>} \cup {<<x>> : x \in ListNames}
           \cup {l \in ListNames \X ListNames : l[1] # l[2]}

\* The columns named in item assignment and deletion and in set_as_location
ItemNames == {StrRow, StrOd, StrCond, StrValue}

\* The arguments of set_as_value
NewValues == {[list |-> FALSE, v |-> StrOd], [list |-> FALSE, v |-> StrCond],
              [list |-> TRUE, v |-> <<StrOd>>]}

\* The dictionaries of one annotation column
AnnKeys ==
    {<<"A", "1">>, <<"A", "0", "1">>,
     <<"A">> \o Br(Hyphen(<<"1">>, <<"2">>)),
     <<"A">> \o Br(Hyphen(<<"0", "1">>, <<"0", "2">>))}
DefaultKeys == {<<"o", "t", "h", "e", "r">>, <<"D", "e", "f", "a", "u", "l", "t">>}
AnnDicts ==
    {<< <<k, "v1">> >> : k \in AnnKeys}
        \cup {<< <<k, "v1">>, <<(<<"o", "t", "h", "e", "r">>), "v2">> >> : k \in AnnKeys}
        \cup {<< <<d, "v2">>, <<(<<"A", "1">>), "v1">> >> : d \in DefaultKeys}
        \cup {<< <<(<<"A", "1">>), "v1">>, <<(<<"A", "0", "1">>), "v2">> >>,
              << <<(<<"A", "1">>), "v1">>, <<(<<"f", "o", "o">>), "v2">> >>,
              << <<(<<"A", "1">>), "v1">>, <<(<<"Q", "1">>), "v2">> >>,
              << <<(<<"A">> \o Br(Comma(<<"1">>, <<" ", "2">>))), "v1">> >>,
              << <<(<<"A", "2", "5">>), "v1">> >>,
              << <<(<<"A", "0">>), "v1">> >>,
              << <<(<<"A">> \o Br(Comma(<<"2", "4">>, <<"2", "5">>))), "v1">> >>,
              << <<(<<"A">> \o Br(Hyphen(<<"2", "0">>, <<"3", "0">>))), "v1">> >>,
              << <<(<<"o", "t", "h", "e", "r">>), "v1">>,
                 <<(<<"e", "l", "s", "e">>), "v2">> >>,
              << <<(<<"A">> \o Br(Hyphen(<<"1">>, <<"2">>))), "v1">>,
                 <<(<<"o", "t", "h", "e", "r">>), "v2">>,
                 <<(<<"D", "e", "f", "a", "u", "l", "t">>), "v3">> >>}

\* The addresses a plate holds
RefsOf(p) ==
    <<p._locations, p._annotations, p._values,
      p._column_dict.locations, p._column_dict.annotations, p._column_dict.values>>

RECURSIVE AllRefs(_, _)
AllRefs(ps, i) == IF i > Len(ps) THEN <<>> ELSE RefsOf(ps[i]) \o AllRefs(ps, i + 1)

\* The heap without the lists no plate holds, and the plates with the
\* addresses of their lists in it
Renumber(order, p) ==
    [p EXCEPT !._locations = ListIndex(order, @) + 1,
              !._annotations = ListIndex(order, @) + 1,
              !._values = ListIndex(order, @) + 1,
              !._column_dict = [locations |-> ListIndex(order, @.locations) + 1,
                                annotations |-> ListIndex(order, @.annotations) + 1,
                                values |-> ListIndex(order, @.values) + 1]]

Held(h, ps, order) ==
    /\ heap' = [k \in 1..Len(order) |-> h[order[k]]]
    /\ plates' = [i \in 1..Len(ps) |-> Renumber(order, ps[i])]

Hold(h, ps) == Held(h, ps, FirstOccurrences(AllRefs(ps, 1)))

Machine(i) == [h |-> heap, p |-> plates[i], err |-> NoErr, a |-> 0]

\* The plate i after a call that changed it in place (also when it raised)
Changed(i, m, op, arg) ==
    /\ Hold(m.h, [plates EXCEPT ![i] = m.p])
    /\ call' = [op |-> op, err |-> m.err, arg |-> arg]
    /\ ops' = ops + 1
    /\ UNCHANGED regex_vars
    /\ UNCHANGED pad_vars

\* The caller holds plate i and the plate a call on it returned
Derived(i, m, op, arg) ==
    /\ Hold(m.h, IF m.err = NoErr THEN <<plates[i], m.p>> ELSE plates)
    /\ call' = [op |-> op, err |-> m.err, arg |-> arg]
    /\ ops' = ops + 1
    /\ UNCHANGED regex_vars
    /\ UNCHANGED pad_vars

Constructed(m) ==
    /\ m.err = NoErr
    /\ heap = m.h
    /\ plates = <<m.p>>
    /\ call = [op |-> "Plate", err |-> NoErr, arg |-> <<>>]
    /\ ops = 0

\* Plate(pd.DataFrame with the columns header): the plate, or the exception
Attempted(header, m) ==
    /\ heap = m.h
    /\ plates = (IF m.err = NoErr THEN <<m.p>> ELSE <<>>)
    /\ call = [op |-> "Plate", err |-> m.err, arg |-> header]
    /\ ops = 0

Init ==
    /\ \/ \E wells \in WellLists, od \in BOOLEAN, zero_padding \in {None, PTrue, PFalse} :
             Constructed(__init__(<<>>, Frame(wells, od), NoName, zero_padding))
       \/ \E header \in Headers :
             Attempted(header, __init__(<<>>, Headed(header), NoName, None))
    /\ RegexIdle
    /\ PadIdle

CanCall(i) == ops < MaxOps /\ i \in 1..Len(plates)

\* plates[i].zero_padding = p
SetPadding ==
    \E i \in 1..2, p \in {None, PTrue, PFalse} :
        /\ CanCall(i)
        /\ Changed(i, PlateZeroPadding(Machine(i), p), "zero_padding", p)

\* plates[i].locations = l
SetLocations ==
    \E i \in 1..2, l \in ColumnLists :
        /\ CanCall(i)
        /\ Changed(i, LocationsSetter(Alloc(Machine(i), l)), "locations", l)

\* plates[i].annotations = l
SetAnnotations ==
    \E i \in 1..2, l \in ColumnLists :
        /\ CanCall(i)
        /\ Changed(i, AnnotationsSetter(Alloc(Machine(i), l)), "annotations", l)

\* plates[i].values = l
SetValues ==
    \E i \in 1..2, l \in ColumnLists :
        /\ CanCall(i)
        /\ Changed(i, ValuesSetter(Alloc(Machine(i), l)), "values", l)

\* plates[i][key] = 'v1'
SetItem ==
    \E i \in 1..2, key \in ItemNames :
        /\ CanCall(i)
        /\ Changed(i, __setitem__(Machine(i), key, "v1"), "__setitem__", key)

\* del plates[i][key]
DelItem ==
    \E i \in 1..2, key \in ItemNames \cup {StrWell} :
        /\ CanCall(i)
        /\ Changed(i, __delitem__(Machine(i), key), "__delitem__", key)

\* plates[i].set_as_location(loc, idx)
SetAsLocation ==
    \E i \in 1..2, loc \in ItemNames, idx \in {-1, 0} :
        /\ CanCall(i)
        /\ Derived(i, set_as_location(heap, plates[i], loc, idx), "set_as_location", loc)

\* plates[i].set_as_value(new_values, value_name)
SetAsValue ==
    \E i \in 1..2, new_values \in NewValues, value_name \in {NoName, StrValue} :
        /\ CanCall(i)
        /\ Derived(i, set_as_value(heap, plates[i], new_values, value_name),
                     "set_as_value", [new_values |-> new_values, value_name |-> value_name])

\* plates[i].annotate_wells({'cond': d})
AnnotateWells ==
    \E i \in 1..2, d \in AnnDicts :
        /\ CanCall(i)
        /\ Derived(i, annotate_wells(heap, plates[i], << <<StrCond, d>> >>),
                     "annotate_wells", d)

Next ==
    \/ SetPadding
    \/ SetLocations
    \/ SetAnnotations
    \/ SetValues
    \/ SetItem
    \/ DelItem
    \/ SetAsLocation
    \/ SetAsValue
    \/ AnnotateWells

Spec == Init /\ [][Next]_vars

(***************************************************************************)
(* Forms of a well, read off the characters of its column substring        *)
(***************************************************************************)
\* a row character followed by decimal digits
IsWell(k) == Len(k) > 1 /\ \A i \in 2..Len(k) : IsDigit(k[i])

\* the column substring is longer than the decimal form of its value
ZeroPadded(k) == Len(k) > 2 /\ k[2] = "0"

\* A1, A10: no leading zero
UnpaddedForm(k) == IsWell(k) /\ ~ZeroPadded(k)

\* A01, A10: two digits for 0..9, no leading zero otherwise
PaddedForm(k) ==
    /\ IsWell(k)
    /\ Len(k) > 2
    /\ k[2] = "0" => Len(k) = 3

InForm(k, p) == IF p = PTrue THEN PaddedForm(k) ELSE UnpaddedForm(k)

\* the well as a pair of its row character and its column number
RowCol(k) == <<k[1], DigitsVal(Tail(k))>>

OutKeys == {output.dict[i][1] : i \in 1..Len(output.dict)}
InKeys == {input_dict[i][1] : i \in 1..Len(input_dict)}
Returned == output.err = NoErr

(***************************************************************************)
(* Claims about the parser                                                 *)
(***************************************************************************)
\* C1: with an explicit padded argument p, every well key of the mapping
\* returned by well_regex is written in the form of p, whatever form the
\* input key used (literal or range, padded or not).
C1_KeysInFormOfPadded ==
    (Returned /\ padded # None) =>
        \A k \in OutKeys : IsWell(k) => InForm(k, padded)

\* The wells that a key alone expands to under the padded argument
AloneKeys(k) ==
    LET r == well_regex(<< <<k, ValueOf(1)>> >>, padded)
    IN  IF r.err = NoErr THEN {r.dict[i][1] : i \in 1..Len(r.dict)} ELSE {}

\* C2: when two expressions of one mapping match the same well, the value of
\* the later-declared expression is the one assigned to the well.
C2_LaterExpressionWins ==
    (Returned /\ padded # None) =>
        \A i \in 1..Len(input_dict) : \A w \in AloneKeys(input_dict[i][1]) :
            (\A j \in (i + 1)..Len(input_dict) : w \notin AloneKeys(input_dict[j][1]))
                => DictGet(output.dict, w) = input_dict[i][2]

\* Position of a row letter in the canonical alphabet (0 when outside it)
RowPos(x) ==
    IF \E i \in 1..Len(RowAlphabet) : <<RowAlphabet[i]>> = x
    THEN CHOOSE i \in 1..Len(RowAlphabet) : <<RowAlphabet[i]>> = x
    ELSE 0

\* Keys with one hyphenated range whose start comes strictly after its end
ReversedRowKeys ==
    {Br(Hyphen(xy[1], xy[2])) \o <<"1">> :
        xy \in {q \in InRows \X InRows :
                  RowPos(q[2]) > 0 /\ RowPos(q[1]) > RowPos(q[2])}}

ReversedColKeys ==
    {<<"A">> \o Br(Hyphen(ab[1], ab[2])) :
        ab \in {q \in ColTokens \X ColTokens : DigitsVal(q[1]) > DigitsVal(q[2])}}

\* C3: a hyphenated range whose start comes strictly after its end makes the
\* expansion fail with an error; it never returns an empty or partial set.
C3_ReversedRangeFails ==
    (Len(input_dict) = 1 /\ input_dict[1][1] \in ReversedRowKeys \cup ReversedColKeys
        /\ output # Unset) => ~Returned

\* A collection of wells, some zero-padded and some not / none zero-padded
MixedWells(ks) == (\E k \in ks : ZeroPadded(k)) /\ (\E k \in ks : ~ZeroPadded(k))
NoWellPadded(ks) == \A k \in ks : ~ZeroPadded(k)
InferredFrom(ks) ==
    /\ padded = None
    /\ AllWells(input_dict)
    /\ InKeys = ks

\* C7: padding inference uses OR semantics: for a collection of wells,
\* well_regex with padded=None and the zero_padding setter given None choose
\* the padded policy if and only if at least one well is zero-padded, and
\* every well of the result is written in the chosen form.
C7_InferenceIsOr ==
    InferredFrom(InKeys) =>
        /\ wells_out.err = NoErr =>
              /\ wells_out.zero_padding = PTrue <=> \E k \in InKeys : ZeroPadded(k)
              /\ \A i \in 1..Len(wells_out.wells) :
                    InForm(wells_out.wells[i], wells_out.zero_padding)
        /\ Returned =>
              \A k \in OutKeys :
                  InForm(k, IF \E j \in InKeys : ZeroPadded(j) THEN PTrue ELSE PFalse)

C7_Witness ==
    /\ InferredFrom({<<"A", "1">>, <<"A", "0", "1">>})
    /\ wells_out.err = NoErr
    /\ wells_out.zero_padding = PTrue
    /\ wells_out.wells = << <<"A", "0", "1">>, <<"A", "0", "1">> >>
    /\ Returned
    /\ OutKeys = {<<"A", "0", "1">>}

\* C8 as stated: the policy inferred from a collection of wells that is mixed
\* or entirely unpadded is unpadded (False).
C8_MixedInfersUnpadded ==
    (wells_out.err = NoErr /\ InferredFrom(InKeys)
        /\ (MixedWells(InKeys) \/ NoWellPadded(InKeys)))
        => wells_out.zero_padding = PFalse

\* C8 amended: the policy inferred from an entirely unpadded collection is
\* unpadded (False) and the policy inferred from a mixed collection is
\* padded (True); well_regex writes its keys accordingly.
C8_MixedInfersPadded ==
    /\ (wells_out.err = NoErr /\ InferredFrom(InKeys)) =>
          /\ NoWellPadded(InKeys) => wells_out.zero_padding = PFalse
          /\ MixedWells(InKeys) => wells_out.zero_padding = PTrue
    /\ (Returned /\ InferredFrom(InKeys)) =>
          /\ NoWellPadded(InKeys) => OutKeys = InKeys
          /\ MixedWells(InKeys) => \E k \in OutKeys : ZeroPadded(k)

C8_Witness ==
    /\ InferredFrom({<<"A", "0", "1">>, <<"A", "2">>})
    /\ wells_out.err = NoErr
    /\ wells_out.zero_padding = PTrue
    /\ Returned
    /\ OutKeys = {<<"A", "0", "1">>, <<"A", "0", "2">>}

\* C9: pad(pad(w, p1), p2) = pad(w, p2) for every well w and all flags p1, p2
\* (so pad twice with one flag is pad once), and pad changes neither the row
\* character nor the integer value of the column.
C9_PadIdempotent ==
    Len(flags) > 0 =>
        /\ well = pad(well0, flags[Len(flags)]).well
        /\ well[1] = well0[1]
        /\ DigitsVal(Tail(well)) = DigitsVal(Tail(well0))

C9_Witness ==
    /\ well0 = <<"A", "1">>
    /\ flags = <<TRUE, FALSE>>
    /\ well = <<"A", "1">>

\* The rows listed by a bracket with a range x-y and a single letter z
RowsBetween(x, y) == {<<RowAlphabet[i]>> : i \in RowPos(x)..RowPos(y)}
InAlphabet(x) == RowPos(x) > 0
Ordered(x, y) == InAlphabet(x) /\ InAlphabet(y) /\ RowPos(x) <= RowPos(y)

\* the rows and column numbers of the returned wells
OutRowCols == {RowCol(k) : k \in OutKeys}
OnlyKey(k) == Len(input_dict) = 1 /\ input_dict[1][1] = k /\ output # Unset
Expands(rs, c) ==
    /\ Returned
    /\ \A k \in OutKeys : IsWell(k)
    /\ OutRowCols = {<<r[1], DigitsVal(c)>> : r \in rs}
    /\ \A i \in 1..Len(output.dict) : output.dict[i][2] = ValueOf(1)

\* Row brackets with well-ordered ranges, each with the rows it lists
RowCases ==
    {<<Br(x), {x}>> : x \in InRows}
        \cup {<<Br(Comma(q[1], q[2])), {q[1], q[2]}>> : q \in InRows \X InRows}
        \cup {<<Br(Hyphen(q[1], q[2])), RowsBetween(q[1], q[2])>> :
                q \in {p \in InRows \X InRows : Ordered(p[1], p[2])}}
        \cup {<<Br(Comma(Hyphen(q[1], q[2]), q[3])), RowsBetween(q[1], q[2]) \cup {q[3]}>> :
                q \in {p \in InRows \X InRows \X InRows : Ordered(p[1], p[2])}}

\* C10: a bracketed row axis expands to exactly the listed rows: a single
\* letter gives that row, a range X-Y with X at or before Y in the alphabet
\* gives every alphabet letter from index(X) to index(Y) inclusive, and no
\* other row is returned ([H-J] gives H and J without I).
C10_RowBracketExpands ==
    (Len(input_dict) = 1 /\ output # Unset /\ input_dict[1][1][1] = "[") =>
        \A rc \in RowCases : \A c \in {<<"1">>, <<"0", "1">>, <<"1", "0">>} :
            input_dict[1][1] = rc[1] \o c => Expands(rc[2], c)

C10_Witness ==
    /\ OnlyKey(Br(Hyphen(<<"H">>, <<"J">>)) \o <<"1">>)
    /\ padded = PFalse
    /\ OutKeys = {<<"H", "1">>, <<"J", "1">>}

(***************************************************************************)
(* Claims about the plate                                                  *)
(***************************************************************************)
LocationsOf(p) == heap[p._locations]
AnnotationsOf(p) == heap[p._annotations]
ValuesOf(p) == heap[p._values]

\* The columns of the table are the locations with the well first, then the
\* annotations, then the values, and the last column is the primary value
ColumnsOrdered(p) ==
    /\ ColNames(p.df) = LocationsOf(p) \o AnnotationsOf(p) \o ValuesOf(p)
    /\ LocationsOf(p) # <<>>
    /\ LocationsOf(p)[1] = p._well
    /\ {p._row, p._col} \subseteq ListSet(LocationsOf(p))
    /\ ValuesOf(p) # <<>>
    /\ ValuesOf(p)[Len(ValuesOf(p))] = p._value_name
    /\ p.df[Len(p.df)].name = p._value_name

Annotated == call.op = "annotate_wells" /\ call.err = NoErr
AnnotatedPlate == plates[Len(plates)]
CondCells == MiOf(AnnotatedPlate.mi, "annotations", StrCond).cells

\* The keys written in the annotation dictionaries, each with the wells it
\* names, a well being its row character and its column number
WellA(n) == <<"A", n>>
AnnKeyWells ==
    {<< <<"A", "1">>, {WellA(1)} >>,
     << <<"A", "0", "1">>, {WellA(1)} >>,
     << <<"A">> \o Br(Hyphen(<<"1">>, <<"2">>)), {WellA(1), WellA(2)} >>,
     << <<"A">> \o Br(Hyphen(<<"0", "1">>, <<"0", "2">>)), {WellA(1), WellA(2)} >>}

\* The entries of the dictionary d whose key matches the table well w once
\* both are canonical
MatchingEntries(d, w) ==
    {i \in 1..Len(d) : \E kw \in AnnKeyWells : kw[1] = d[i][1] /\ RowCol(w) \in kw[2]}

Expected(d, w) ==
    IF MatchingEntries(d, w) # {}
    THEN d[CHOOSE i \in MatchingEntries(d, w) : TRUE][2]
    ELSE DefaultOf(d)

ColumnWell(n, p) ==
    <<"A">> \o (IF p = PTrue /\ n < 10 THEN <<"0">> \o PyStr(n) ELSE PyStr(n))

\* The keys 'A[a-b]' with a <= b written without leading zeros
NumericRanges == {ab \in ColNumbers \X ColNumbers : ab[1] <= ab[2]}
RangeKey(ab) == <<"A">> \o Br(Hyphen(PyStr(ab[1]), PyStr(ab[2])))

\* C11: a hyphenated column range 'A[a-b]' with 1 <= a <= b <= 24 written
\* without leading zeros is resolved in numeric order: for every padded
\* argument the result is exactly the wells of row A with columns a..b, in
\* the padding form of the policy, each with the value of the key.
C11_NumericColumnRange ==
    \A ab \in NumericRanges :
        OnlyKey(RangeKey(ab)) =>
            /\ Returned
            /\ OutKeys = {ColumnWell(n, padded) : n \in ab[1]..ab[2]}
            /\ Len(output.dict) = ab[2] - ab[1] + 1
            /\ \A i \in 1..Len(output.dict) : output.dict[i][2] = ValueOf(1)

C11_Witness ==
    /\ OnlyKey(RangeKey(<<9, 11>>))
    /\ padded = PFalse
    /\ Returned
    /\ OutKeys = {<<"A", "9">>, <<"A", "1", "0">>, <<"A", "1", "1">>}

\* The key has a bracketed axis
Bracketed(k) == \E i \in 1..Len(k) : k[i] = "["

\* Every key of the mapping expands without an error when it is the only key
EachAloneReturns ==
    \A i \in 1..Len(input_dict) :
        well_regex(<< <<input_dict[i][1], ValueOf(1)>> >>, padded).err = NoErr

\* C12: a key with one or both axes bracketed yields exactly the product of
\* its matching rows and matching columns, every such well carries the value
\* of the key, the bracketed key itself is absent from the output, and the
\* wells named by the other keys keep their own values.
C12_ProductOfRowsAndCols ==
    (output # Unset /\ padded # None /\ EachAloneReturns) =>
        /\ Returned
        /\ OutKeys = UNION {AloneKeys(input_dict[i][1]) : i \in 1..Len(input_dict)}
        /\ \A k \in InKeys : Bracketed(k) => k \notin OutKeys
        /\ \A i \in 1..Len(input_dict) : \A w \in AloneKeys(input_dict[i][1]) :
              (\A j \in 1..Len(input_dict) : j # i => w \notin AloneKeys(input_dict[j][1]))
                  => DictGet(output.dict, w) = input_dict[i][2]

(***************************************************************************)
(* Claims about the checks of annotate_wells                               *)
(***************************************************************************)
\* A step that is a call of annotate_wells
AnnotateCall == call'.op = "annotate_wells" /\ ops' = ops + 1

\* The keys of a column's mapping that are default sentinels in any case
SentinelKeys(d) == {d[i][1] : i \in {j \in 1..Len(d) : Lower(d[j][1]) \in Sentinels}}

\* The tables of the plates the caller holds
Tables(ps) == {ps[j].df : j \in 1..Len(ps)}

\* C13: annotate_wells raises an error, and produces no annotated plate, when
\* the mapping of a column contains more than one default sentinel key.
C13_MultipleDefaultsRaise ==
    [][(AnnotateCall /\ Cardinality(SentinelKeys(call'.arg)) > 1)
          => (call'.err # NoErr /\ Tables(plates') \subseteq Tables(plates))]_vars

C13_Witness ==
    /\ call.op = "annotate_wells"
    /\ Len(call.arg) = 3
    /\ call.arg[1][1] = <<"A">> \o Br(Hyphen(<<"1">>, <<"2">>))
    /\ Cardinality(SentinelKeys(call.arg)) = 2
    /\ call.err = ValueError
    /\ Len(plates) = 1

\* A well identifier of the grid: a row A..P and a column 1..24, written
\* without a leading zero or with two digits
GridWell(k) ==
    /\ IsWell(k)
    /\ Len(k) <= 3
    /\ \E r \in 1..16 : UpperLetters[r] = k[1]
    /\ DigitsVal(Tail(k)) \in 1..LastColumn

\* The keys of a column's mapping that are neither wells of the grid nor
\* bracket expressions
NonWellKeys(d) == {d[i][1] : i \in {j \in 1..Len(d) : ~GridWell(d[j][1]) /\ ~Bracketed(d[j][1])}}

Spaced(k) == \E i \in 1..Len(k) : k[i] = " "

\* C15: a bracket expression with a stray space ('A[1, 2]') never silently
\* expands to well identifiers: the annotation call that is given it fails
\* with an error on a plate of either padding policy.
C15_StraySpaceRaises ==
    (call.op = "annotate_wells" /\ \E i \in 1..Len(call.arg) : Spaced(call.arg[i][1]))
        => call.err # NoErr

(***************************************************************************)
(* Claims about the plate annotate_wells returns                           *)
(***************************************************************************)
\* The number of times x occurs in the list l
Count(l, x) == Cardinality({i \in 1..Len(l) : l[i] = x})
SameWells(a, b) == \A w \in ListSet(a) \cup ListSet(b) : Count(a, w) = Count(b, w)

\* The plate annotate_wells was called on
AnnotatedFrom == plates[1]

\* C16: annotate_wells with a dictionary never adds, removes or duplicates
\* table rows: the returned plate has exactly the wells of the original, and
\* every well has exactly one value (of an expression, the default, or null)
\* in the new annotation column.
C16_RowsPreserved ==
    Annotated =>
        /\ SameWells(AnnotatedPlate.index, AnnotatedFrom.index)
        /\ ColOf(AnnotatedPlate.df, AnnotatedPlate._well).cells = AnnotatedPlate.index
        /\ \A i \in 1..Len(AnnotatedPlate.df) :
              Len(AnnotatedPlate.df[i].cells) = Len(AnnotatedFrom.index)
        /\ HasCol(AnnotatedPlate.df, StrCond)
        /\ \A r \in 1..Len(CondCells) :
              CondCells[r] \in {call.arg[i][2] : i \in 1..Len(call.arg)} \cup {None}

C16_Witness ==
    /\ Annotated
    /\ AnnotatedFrom.index = << <<"A", "1">>, <<"A", "2">> >>
    /\ AnnotatedPlate.index = << <<"A", "1">>, <<"A", "2">> >>
    /\ ColOf(AnnotatedPlate.df, StrCond).cells = <<"v1", "v2">>

\* What a caller can read of a plate: its table, its index and the contents
\* of its three lists
Snapshot(p, h) ==
    [df |-> p.df, index |-> p.index, mi |-> p.mi,
     locations |-> h[p._locations], annotations |-> h[p._annotations],
     values |-> h[p._values]]
Snapshots(ps, h) == [j \in 1..Len(ps) |-> Snapshot(ps[j], h)]

WellsInPolicy(p) ==
    /\ p._zero_padding \in {PTrue, PFalse}
    /\ ColOf(p.df, p._well).cells = p.index
    /\ \A r \in 1..Len(p.index) :
          /\ InForm(p.index[r], p._zero_padding)
          /\ pad(p.index[r], Truthy(p._zero_padding)).well = p.index[r]
          /\ ColOf(p.df, p._row).cells[r] = <<p.index[r][1]>>
          /\ ColOf(p.df, p._col).cells[r] = DigitsVal(Tail(p.index[r]))

\* C18: after construction with zero_padding True or False, and after
\* assigning zero_padding, every well of the table is written in that form,
\* and in every row the row column is the well's first character and the
\* column column the integer value of the rest of the well.
C18_WellsInPolicy ==
    (call.op \in {"Plate", "zero_padding"} /\ call.err = NoErr) =>
        /\ \A i \in 1..Len(plates) : WellsInPolicy(plates[i])
        /\ (call.op = "zero_padding" /\ call.arg # None)
              => \E i \in 1..Len(plates) : plates[i]._zero_padding = call.arg

C18_Witness ==
    /\ call.op = "zero_padding"
    /\ call.err = NoErr
    /\ call.arg = PTrue
    /\ Len(plates) = 1
    /\ plates[1]._zero_padding = PTrue
    /\ plates[1].index = << <<"A", "0", "1">>, <<"B", "0", "1">> >>

\* The last call returned a plate derived from plates[1]
DerivedPlate ==
    /\ call.op \in {"annotate_wells", "set_as_location", "set_as_value"}
    /\ call.err = NoErr

WellLike(header) == {i \in 1..Len(header) : Lower(header[i]) = StrWell}

\* C20: construction accepts a DataFrame that has exactly one column whose
\* name case-insensitively equals 'well' ('well', 'Well', 'WELL') and rejects
\* with an error a table that has no such column or more than one.
C20_OneWellColumn ==
    (call.op = "Plate" /\ call.arg # <<>>) =>
        (call.err = NoErr <=> Cardinality(WellLike(call.arg)) = 1)

(***************************************************************************)
(* Claims about malformed wells and ranges                                 *)
(***************************************************************************)
\* C21: decomposing a well into its row letter and column number, as pad
\* does, fails with an error when the row character is not an uppercase
\* letter of the alphabet 'ABCDEFGHJLMNOP' or when the rest is not numeric:
\* pad returns only for a well whose row is in the alphabet and whose rest
\* is a number.
C21_MalformedWellFails ==
    Len(flags) > 0 => (InList(RowAlphabet, well0[1]) /\ PyIntOk(Tail(well0)))

(***************************************************************************)
(* Claims about set_as_value                                               *)
(***************************************************************************)
\* The column names an argument new_values gives: the elements of a list,
\* or the one name
NewNames(new_values) == IF new_values.list THEN ListSet(new_values.v) ELSE {new_values.v}

\* The names are columns of the table of p that are not values of p, and
\* value_name, when given, is one of them or a value of p
NotYetValues(p, h, a) ==
    /\ \A n \in NewNames(a.new_values) : HasCol(p.df, n) /\ ~InList(h[p._values], n)
    /\ h[p._values] # <<>>
    /\ a.value_name # NoName =>
          (a.value_name \in NewNames(a.new_values) \/ InList(h[p._values], a.value_name))

SetAsValueCall == call'.op = "set_as_value" /\ ops' = ops + 1

\* The last element of a non-empty list
Last(l) == l[Len(l)]

OutsideRows == {<<"I">>, <<"K">>}
OutsideRangeKeys ==
    {Br(Hyphen(q[1], q[2])) \o c :
        q \in {p \in InRows \X InRows : p[1] \in OutsideRows \/ p[2] \in OutsideRows},
        c \in {<<"1">>, <<"0", "1">>, <<"1", "0">>}}
    \cup
    {Br(Comma(Hyphen(q[1], q[2]), q[3])) \o c :
        q \in {p \in InRows \X InRows \X InRows : p[1] \in OutsideRows \/ p[2] \in OutsideRows},
        c \in {<<"1">>, <<"0", "1">>, <<"1", "0">>}}

\* C23: a hyphenated row range that names the letter I or K as an endpoint
\* ('[H-I]1', '[K-M]1') makes the expansion fail with an error, as neither
\* letter is in the row alphabet.
C23_OutsideRowRangeFails ==
    (Len(input_dict) = 1 /\ output # Unset /\ input_dict[1][1] \in OutsideRangeKeys)
        => output.err = ValueError

C23_Witness ==
    /\ OnlyKey(Br(Hyphen(<<"K">>, <<"J">>)) \o <<"1">>)
    /\ padded = PTrue
    /\ output.err = ValueError

\* Keys with a hyphenated column range between two one-digit columns, one
\* written with a leading zero and the other without
MixedFormRangeKeys ==
    {r \o Br(Hyphen(ab[1], ab[2])) :
        r \in {<<"A">>, Br(Comma(<<"A">>, <<"B">>))},
        ab \in {q \in ColTokens \X ColTokens :
                  /\ DigitsVal(q[1]) < 10
                  /\ DigitsVal(q[2]) < 10
                  /\ (q[1][1] = "0") # (q[2][1] = "0")}}

\* C24: a hyphenated column range whose one-digit endpoints use different
\* padding forms ('A[1-09]', 'A[01-9]') makes well_regex raise an error
\* instead of returning a mapping.
C24_MixedFormRangeFails ==
    (output # Unset /\ \E i \in 1..Len(input_dict) : input_dict[i][1] \in MixedFormRangeKeys)
        => output.err = ValueError

C24_Witness ==
    /\ OnlyKey(<<"A">> \o Br(Hyphen(<<"1">>, <<"0", "9">>)))
    /\ padded = None
    /\ output.err = ValueError

(***************************************************************************)
(* Claims about columns outside the plate                                  *)
(***************************************************************************)
\* The column numbers written in a key: the rest of a key without a column
\* bracket, the single columns and the range endpoints of a column bracket
RECURSIVE EndpointsOf(_, _)
EndpointsOf(comma_split, i) ==
    IF i > Len(comma_split) THEN {}
    ELSE ListSet(Split(comma_split[i], "-")) \cup EndpointsOf(comma_split, i + 1)

WrittenColumns(k) ==
    IF k[Len(k)] = "]"
    THEN EndpointsOf(Split(PySlice(k, RFind(k, "[") + 1, -1), ","), 1)
    ELSE {Tail(k)}

\* The key names a well whose column number is outside 1..LastColumn
OutsideColumn(k) ==
    /\ \A c \in WrittenColumns(k) : c # <<>> /\ AllDigits(c)
    /\ \E c \in WrittenColumns(k) : DigitsVal(c) \notin 1..LastColumn

\* C25: annotate_wells raises an error, instead of silently ignoring the
\* key, for any annotation mapping that names a well whose column number is
\* outside 1..24: a literal key ('A25', 'A0'), a comma list ('A[24,25]') or
\* a range endpoint ('A[20-30]'); no plate is returned.
C25_OutsideColumnRaises ==
    [][(AnnotateCall /\ \E i \in 1..Len(call'.arg) : OutsideColumn(call'.arg[i][1]))
          => (call'.err # NoErr /\ Len(plates') = Len(plates))]_vars

C25_Witness ==
    /\ call.op = "annotate_wells"
    /\ call.arg = << <<(<<"A">> \o Br(Comma(<<"2", "4">>, <<"2", "5">>))), "v1">> >>
    /\ call.err = ValueError

DelItemCall == call'.op = "__delitem__" /\ ops' = ops + 1

BaseLocations == {StrWell, StrRow, StrColumn}

\* Plate i lost the column key from its table and from its three lists, and
\* nothing else
Deleted(i, key) ==
    /\ HasCol(plates[i].df, key)
    /\ plates'[i].df = DelCol(plates[i].df, key)
    /\ heap'[plates'[i]._locations] = ListWithout(LocationsOf(plates[i]), {key})
    /\ heap'[plates'[i]._annotations] = ListWithout(AnnotationsOf(plates[i]), {key})
    /\ heap'[plates'[i]._values] = ListWithout(ValuesOf(plates[i]), {key})

C28_KeysExpandIndependently ==
    (output # Unset /\ padded # None) =>
        /\ Returned <=> EachAloneReturns
        /\ Returned =>
              OutKeys = UNION {AloneKeys(input_dict[i][1]) : i \in 1..Len(input_dict)}

\* The entries of the mapping whose key is a default sentinel, and the others
SentinelEntries == {i \in 1..Len(input_dict) : Lower(input_dict[i][1]) \in Sentinels}
OthersAloneReturn ==
    \A i \in (1..Len(input_dict)) \ SentinelEntries :
        well_regex(<< <<input_dict[i][1], ValueOf(1)>> >>, padded).err = NoErr

\* C29: for every padded argument (True, False or None), well_regex applied
\* to a mapping that contains a default sentinel key ('default', 'standard',
\* 'else', 'other') returns normally, and the returned mapping still holds
\* that key, unexpanded and unchanged, with its value.
C29_SentinelKeyKept ==
    (output # Unset /\ SentinelEntries # {} /\ OthersAloneReturn) =>
        /\ Returned
        /\ \A i \in SentinelEntries :
              DictHas(output.dict, input_dict[i][1])
                  /\ DictGet(output.dict, input_dict[i][1]) = input_dict[i][2]

\* No element of the list occurs in it twice
NoRepeat(l) == \A i, j \in 1..Len(l) : l[i] = l[j] => i = j

\* The three groups of p share no column, the base locations are locations,
\* and the table has no column name twice
GroupsDisjoint(p) ==
    /\ ListSet(LocationsOf(p)) \cap ListSet(AnnotationsOf(p)) = {}
    /\ ListSet(LocationsOf(p)) \cap ListSet(ValuesOf(p)) = {}
    /\ ListSet(AnnotationsOf(p)) \cap ListSet(ValuesOf(p)) = {}
    /\ {p._well, p._row, p._col} \subseteq ListSet(LocationsOf(p))
    /\ NoRepeat(ColNames(p.df))

====
